---- MODULE Spec2Model ----
(***************************************************************************)
(* Model of the Landroid Cloud API adapter (LandroidAPI in api.py) and of  *)
(* the LandXcape configuration schema (CONFIG_SCHEME in landxcape.py).     *)
(*                                                                         *)
(* The adapter lives on the host's single cooperative event loop.  A       *)
(* synchronous method (check_features, receive_data, the log callbacks)    *)
(* is one atomic step.  async_await_features is a coroutine; it is         *)
(* modelled step by step, and because its body contains no await it keeps  *)
(* the event loop from entry to return: only the wall clock moves while    *)
(* it runs.                                                                *)
(***************************************************************************)
EXTENDS Integers, Sequences, FiniteSets, TLC

(***************************************************************************)
(* Bounds of the model.                                                    *)
(***************************************************************************)
\* capability bits already set in a mask handed to check_features
MaxInputFlags == 1
\* check_features calls in a behaviour
MaxCalls == 2
\* the wall clock runs from 0 to MaxTime seconds
MaxTime == 3
\* timeouts handed to async_await_features are -1..MaxTimeout seconds
MaxTimeout == 1
\* async_await_features calls in a behaviour
MaxGateCalls == 1
\* device names have 1..MaxNameLen characters
MaxNameLen == 2
\* data-received notifications in a behaviour
MaxEvents == 2
\* integers offered to the schema reach this far beyond its limits
ValueMargin == 2

(***************************************************************************)
(* LandroidFeatureSupport (const.py): one pre-assigned bit per feature.    *)
(***************************************************************************)
MOWER == 1
BUTTON == 2
SELECT == 4
SETZONE == 8
RESTART == 16
LOCK == 32
OTS == 64
EDGECUT == 128
PARTYMODE == 256
CONFIG == 512
SCHEDULES == 1024
TORQUE == 2048

\* DeviceCapability members queried by check_features
DeviceCapability == {"PARTY_MODE", "ONE_TIME_SCHEDULE", "EDGE_CUT", "TORQUE"}

\* DEVICE_FEATURES of the LandXcape model: the mask its entities start from
DEVICE_FEATURES == MOWER + BUTTON + LOCK + CONFIG + RESTART + SELECT + SETZONE + SCHEDULES

(***************************************************************************)
(* Python's | and & on feature masks, bit by bit over the twelve feature   *)
(* bits.                                                                   *)
(***************************************************************************)
\* whether the single bit `bit` (a power of two) is set in mask n
HasBit(n, bit) == (n \div bit) % 2 = 1

OrBit(a, b, bit) == IF HasBit(a, bit) \/ HasBit(b, bit) THEN bit ELSE 0

AndBit(a, b, bit) == IF HasBit(a, bit) /\ HasBit(b, bit) THEN bit ELSE 0

BitOr(a, b) ==
    OrBit(a, b, MOWER) + OrBit(a, b, BUTTON) + OrBit(a, b, SELECT)
    + OrBit(a, b, SETZONE) + OrBit(a, b, RESTART) + OrBit(a, b, LOCK)
    + OrBit(a, b, OTS) + OrBit(a, b, EDGECUT) + OrBit(a, b, PARTYMODE)
    + OrBit(a, b, CONFIG) + OrBit(a, b, SCHEDULES) + OrBit(a, b, TORQUE)

BitAnd(a, b) ==
    AndBit(a, b, MOWER) + AndBit(a, b, BUTTON) + AndBit(a, b, SELECT)
    + AndBit(a, b, SETZONE) + AndBit(a, b, RESTART) + AndBit(a, b, LOCK)
    + AndBit(a, b, OTS) + AndBit(a, b, EDGECUT) + AndBit(a, b, PARTYMODE)
    + AndBit(a, b, CONFIG) + AndBit(a, b, SCHEDULES) + AndBit(a, b, TORQUE)

\* sum of the feature bits check_features assigns to a set of capability flags
FlagBit(flag) ==
    CASE flag = "PARTY_MODE" -> PARTYMODE
      [] flag = "ONE_TIME_SCHEDULE" -> OTS
      [] flag = "EDGE_CUT" -> EDGECUT
      [] flag = "TORQUE" -> TORQUE

FlagBits(S) ==
    (IF "PARTY_MODE" \in S THEN PARTYMODE ELSE 0)
    + (IF "ONE_TIME_SCHEDULE" \in S THEN OTS ELSE 0)
    + (IF "EDGE_CUT" \in S THEN EDGECUT ELSE 0)
    + (IF "TORQUE" \in S THEN TORQUE ELSE 0)

FeatureBits == {MOWER, BUTTON, SELECT, SETZONE, RESTART, LOCK, OTS, EDGECUT,
                PARTYMODE, CONFIG, SCHEDULES, TORQUE}

\* masks handed to check_features: nothing or the LandXcape base mask, with
\* up to MaxInputFlags of the four capability bits already set
InputMasks ==
    {b + FlagBits(S) : b \in {0, DEVICE_FEATURES},
                       S \in {T \in SUBSET DeviceCapability : Cardinality(T) <= MaxInputFlags}}

\* timeout arguments of async_await_features
Timeouts == (0 - 1)..MaxTimeout

\* the host's event loop handle (self.hass.loop)
HassLoop == "hass.loop"

VARIABLES
    features,            \* self.features
    features_loaded,     \* self.features_loaded
    capabilities,        \* self.device.capabilities: [ready, flags]
    arg_features,        \* argument `features` of the latest check_features call
    cf_calls,            \* completed check_features calls
    cb_supplied,         \* whether the latest call was given a callback_func
    cb_received,         \* what callback_func of the latest call received, or NotCalled
    cb_calls,            \* invocations of callback_func so far
    gate_pc,             \* position of the async_await_features coroutine
    gate_calls,          \* async_await_features calls started
    now,                 \* datetime.now(), in seconds
    timeout_at,          \* local timeout_at of the running gate call
    timed_out,           \* the running/latest gate call left its loop by `break`
    error,               \* values carried by the ValueError of the latest call
    entry,               \* adapter state when the latest gate call was entered
    mqtt_eventloop,      \* loop the device's MQTT transport is bound to
    set_eventloop_calls, \* calls of self.device.mqtt.set_eventloop
    data_name,           \* argument `name` of the latest receive_data call
    data_calls,          \* receive_data calls so far
    bus_signal,          \* signal of the latest dispatcher_send call
    bus_calls,           \* dispatcher_send calls so far
    last_log,            \* LoggerType and level of the latest logger.log call
    cfg_data,            \* configuration handed to CONFIG_SCHEME
    cfg_result           \* outcome of validating cfg_data

resolverVars == <<features, capabilities, arg_features, cf_calls, cb_supplied,
                  cb_received, cb_calls>>

gateVars == <<features_loaded, gate_pc, gate_calls, now, timeout_at, timed_out,
              error, entry, mqtt_eventloop, set_eventloop_calls>>

busVars == <<data_name, data_calls, bus_signal, bus_calls>>

schemaVars == <<cfg_data, cfg_result>>

otherVars == <<busVars, last_log, schemaVars>>

vars == <<resolverVars, gateVars, otherVars>>

\* callback_func was None, or no call was made yet
NotCalled == 0 - 1

\* no ValueError was raised by the latest gate call
NoError == [ready |-> FALSE, loaded |-> FALSE, bits |-> 0 - 1]

NoLoop == "none"

(***************************************************************************)
(* The event loop.  async_await_features has no await in its body, so      *)
(* from entry to return (or raise) it is the running task and no other     *)
(* task or callback of the loop is scheduled.                              *)
(***************************************************************************)
LoopBusy == gate_pc \in {"while", "check"}

(***************************************************************************)
(* check_features                                                          *)
(***************************************************************************)
\* capabilities.check(flag)
check(flag) == flag \in capabilities.flags

\* mutant: the torque check sets the edge-cut bit
AssessFeatures_WrongBit(m) ==
    LET f1 == IF check("PARTY_MODE") THEN BitOr(m, PARTYMODE) ELSE m
        f2 == IF check("ONE_TIME_SCHEDULE") THEN BitOr(f1, OTS) ELSE f1
        f3 == IF check("EDGE_CUT") THEN BitOr(f2, EDGECUT) ELSE f2
        f4 == IF check("TORQUE") THEN BitOr(f3, EDGECUT) ELSE f3
    IN  f4

\* mutant: the bits are accumulated into self.features instead of the argument
AssessFeatures_KeepOld(m) ==
    LET f0 == BitOr(features, m)
        f1 == IF check("PARTY_MODE") THEN BitOr(f0, PARTYMODE) ELSE f0
        f2 == IF check("ONE_TIME_SCHEDULE") THEN BitOr(f1, OTS) ELSE f1
        f3 == IF check("EDGE_CUT") THEN BitOr(f2, EDGECUT) ELSE f2
        f4 == IF check("TORQUE") THEN BitOr(f3, TORQUE) ELSE f3
    IN  f4

\* the four `if capabilities.check(...): features = features | BIT` statements
AssessFeatures(m) ==
    LET f1 == IF check("PARTY_MODE") THEN BitOr(m, PARTYMODE) ELSE m
        f2 == IF check("ONE_TIME_SCHEDULE") THEN BitOr(f1, OTS) ELSE f1
        f3 == IF check("EDGE_CUT") THEN BitOr(f2, EDGECUT) ELSE f2
        f4 == IF check("TORQUE") THEN BitOr(f3, TORQUE) ELSE f3
    IN  f4

\* mutant: callback_func is handed self.features after the assignment
check_features_CallbackNew(m, cb) ==
    /\ ~LoopBusy
    /\ cf_calls < MaxCalls
    /\ LET old_feature == features
       IN  /\ features' = AssessFeatures(m)
           /\ IF cb
              THEN cb_received' = features' /\ cb_calls' = cb_calls + 1
              ELSE cb_received' = NotCalled /\ cb_calls' = cb_calls
    /\ arg_features' = m
    /\ cb_supplied' = cb
    /\ cf_calls' = cf_calls + 1
    /\ last_log' = [type |-> "FEATURE_ASSESSMENT", level |-> "DEBUG"]
    /\ UNCHANGED <<capabilities, gateVars, busVars, schemaVars>>

\* check_features(features = m, callback_func); cb says whether one was given
check_features(m, cb) ==
    /\ ~LoopBusy
    /\ cf_calls < MaxCalls
    /\ LET old_feature == features
       IN  /\ features' = AssessFeatures(m)
           /\ IF cb
              THEN cb_received' = old_feature /\ cb_calls' = cb_calls + 1
              ELSE cb_received' = NotCalled /\ cb_calls' = cb_calls
    /\ arg_features' = m
    /\ cb_supplied' = cb
    /\ cf_calls' = cf_calls + 1
    /\ last_log' = [type |-> "FEATURE_ASSESSMENT", level |-> "DEBUG"]
    /\ UNCHANGED <<capabilities, gateVars, busVars, schemaVars>>

(***************************************************************************)
(* async_await_features                                                    *)
(***************************************************************************)
\* mutant: the mask is not looked at
ReadinessFailed_NoMaskCheck ==
    \/ ~capabilities.ready
    \/ ~features_loaded

\* mutant: the mask test is inverted
ReadinessFailed_MaskInverted ==
    \/ ~capabilities.ready
    \/ ~features_loaded
    \/ features # 0

\* the condition of the `if` that raises
ReadinessFailed ==
    \/ ~capabilities.ready
    \/ ~features_loaded
    \/ features = 0

\* mutant: the comparison is turned around
DeadlinePassed_Reversed == now < timeout_at

\* `datetime.now() > timeout_at`
DeadlinePassed == now > timeout_at

\* the call and `timeout_at = datetime.now() + timedelta(seconds=timeout)`;
\* the deadline lies within the clock's range
gate_enter(timeout) ==
    /\ ~LoopBusy
    /\ gate_calls < MaxGateCalls
    /\ now + timeout < MaxTime
    /\ gate_calls' = gate_calls + 1
    /\ timeout_at' = now + timeout
    /\ timed_out' = FALSE
    /\ error' = NoError
    /\ entry' = [ready |-> capabilities.ready, loaded |-> features_loaded,
                 bits |-> features, binds |-> set_eventloop_calls]
    /\ gate_pc' = "while"
    /\ UNCHANGED <<otherVars, resolverVars, features_loaded, now, mqtt_eventloop,
                   set_eventloop_calls>>

\* `while not self.features_loaded` finds the flag set
while_exit ==
    /\ gate_pc = "while"
    /\ features_loaded
    /\ gate_pc' = "check"
    /\ UNCHANGED <<otherVars, resolverVars, features_loaded, gate_calls, now, timeout_at,
                   timed_out, error, entry, mqtt_eventloop, set_eventloop_calls>>

\* `if datetime.now() > timeout_at: break`; an iteration that does not break
\* changes nothing and is a stuttering step
while_break ==
    /\ gate_pc = "while"
    /\ ~features_loaded
    /\ DeadlinePassed
    /\ timed_out' = TRUE
    /\ gate_pc' = "check"
    /\ UNCHANGED <<otherVars, resolverVars, features_loaded, gate_calls, now, timeout_at,
                   error, entry, mqtt_eventloop, set_eventloop_calls>>

\* mutant: the transport is bound before the readiness checks
gate_raise_BoundFirst ==
    /\ gate_pc = "check"
    /\ ReadinessFailed
    /\ mqtt_eventloop' = HassLoop
    /\ set_eventloop_calls' = set_eventloop_calls + 1
    /\ error' = [ready |-> capabilities.ready, loaded |-> features_loaded,
                 bits |-> features]
    /\ gate_pc' = "raised"
    /\ UNCHANGED <<otherVars, resolverVars, features_loaded, gate_calls, now, timeout_at,
                   timed_out, entry>>

\* `raise ValueError(f"Capabilities ready: ... Features loaded: ... Feature bits: ...")`
gate_raise ==
    /\ gate_pc = "check"
    /\ ReadinessFailed
    /\ error' = [ready |-> capabilities.ready, loaded |-> features_loaded,
                 bits |-> features]
    /\ gate_pc' = "raised"
    /\ UNCHANGED <<otherVars, resolverVars, features_loaded, gate_calls, now, timeout_at,
                   timed_out, entry, mqtt_eventloop, set_eventloop_calls>>

\* `self.device.mqtt.set_eventloop(self.hass.loop)` and the return
gate_bind ==
    /\ gate_pc = "check"
    /\ ~ReadinessFailed
    /\ mqtt_eventloop' = HassLoop
    /\ set_eventloop_calls' = set_eventloop_calls + 1
    /\ gate_pc' = "returned"
    /\ UNCHANGED <<otherVars, resolverVars, features_loaded, gate_calls, now, timeout_at,
                   timed_out, error, entry>>

(***************************************************************************)
(* The adapter's surroundings.                                             *)
(***************************************************************************)
\* the wall clock
tick ==
    /\ now < MaxTime
    /\ now' = now + 1
    /\ UNCHANGED <<otherVars, resolverVars, features_loaded, gate_pc, gate_calls, timeout_at,
                   timed_out, error, entry, mqtt_eventloop, set_eventloop_calls>>

\* another task of the event loop runs `api.features_loaded = True`
set_features_loaded ==
    /\ ~LoopBusy
    /\ ~features_loaded
    /\ features_loaded' = TRUE
    /\ UNCHANGED <<otherVars, resolverVars, gate_pc, gate_calls, now, timeout_at, timed_out,
                   error, entry, mqtt_eventloop, set_eventloop_calls>>

\* the cloud client, on the event loop, fills in the device's capability
\* report and marks it ready
capabilities_load(S) ==
    /\ ~LoopBusy
    /\ ~capabilities.ready
    /\ capabilities' = [ready |-> TRUE, flags |-> S]
    /\ UNCHANGED <<features, arg_features, cf_calls, cb_supplied, cb_received,
                   cb_calls, gateVars, otherVars>>

(***************************************************************************)
(* Text: a string is a sequence of one-character strings.                  *)
(***************************************************************************)
LowerCase == <<"a", "b", "c", "d", "e", "f", "g", "h", "i", "j", "k", "l", "m",
               "n", "o", "p", "q", "r", "s", "t", "u", "v", "w", "x", "y", "z">>

UpperCase == <<"A", "B", "C", "D", "E", "F", "G", "H", "I", "J", "K", "L", "M",
               "N", "O", "P", "Q", "R", "S", "T", "U", "V", "W", "X", "Y", "Z">>

Digits == {"0", "1", "2", "3", "4", "5", "6", "7", "8", "9"}

\* str.lower() of one character
Lower(c) ==
    IF \E i \in 1..Len(UpperCase) : UpperCase[i] = c
    THEN LowerCase[CHOOSE i \in 1..Len(UpperCase) : UpperCase[i] = c]
    ELSE c

\* the characters [a-z0-9]
AlnumChars == Digits \cup {LowerCase[i] : i \in 1..Len(LowerCase)}

IsAlnum(c) == c \in AlnumChars

\* characters of the texts handled here
Chars == AlnumChars \cup {UpperCase[i] : i \in 1..Len(UpperCase)} \cup {" ", "_", "-"}

\* what each character becomes: its lower case, or "-" outside [a-z0-9]
DashedChar == [c \in Chars |-> IF IsAlnum(Lower(c)) THEN Lower(c) ELSE "-"]

\* lower-case the text and turn every character outside [a-z0-9] into "-"
Dashed(s) == [i \in 1..Len(s) |-> DashedChar[s[i]]]

\* runs of "-" become one "-"
RECURSIVE SquashDashes(_)
SquashDashes(s) ==
    IF Len(s) < 2 THEN s
    ELSE IF s[1] = "-" /\ s[2] = "-" THEN SquashDashes(Tail(s))
    ELSE <<s[1]>> \o SquashDashes(Tail(s))

\* str.strip("-")
RECURSIVE StripDashes(_)
StripDashes(s) ==
    IF s = <<>> THEN s
    ELSE IF s[1] = "-" THEN StripDashes(Tail(s))
    ELSE IF s[Len(s)] = "-" THEN StripDashes(SubSeq(s, 1, Len(s) - 1))
    ELSE s

\* homeassistant.util.slugify(text), separator "_"
util_slugify(text) ==
    LET slug == StripDashes(SquashDashes(Dashed(text)))
    IN  IF slug = <<>>
        THEN <<"u", "n", "k", "n", "o", "w", "n">>
        ELSE [i \in 1..Len(slug) |-> IF slug[i] = "-" THEN "_" ELSE slug[i]]

\* const.UPDATE_SIGNAL
UPDATE_SIGNAL == <<"l", "a", "n", "d", "r", "o", "i", "d", "_", "c", "l", "o", "u", "d",
                   "_", "s", "t", "a", "t", "e", "_", "u", "p", "d", "a", "t", "e">>

\* util_slugify(f"{UPDATE_SIGNAL}_{name}")
Signal(name) == util_slugify(UPDATE_SIGNAL \o <<"_">> \o name)

\* device names of the account
NameChars == {"a", "A", " ", "_"}

Names == UNION {[1..n -> NameChars] : n \in 1..MaxNameLen}

(***************************************************************************)
(* Callbacks registered with the cloud client in __init__.                 *)
(***************************************************************************)
\* mutant: the signal is built from the adapter's own device name
receive_data_OwnName(name) ==
    /\ ~LoopBusy
    /\ data_calls < MaxEvents
    /\ data_name' = name
    /\ data_calls' = data_calls + 1
    /\ last_log' = [type |-> "DATA_UPDATE", level |-> "DEFAULT"]
    /\ bus_signal' = Signal(<<"a">>)
    /\ bus_calls' = bus_calls + 1
    /\ UNCHANGED <<resolverVars, gateVars, schemaVars>>

\* receive_data(name, device)
receive_data(name) ==
    /\ ~LoopBusy
    /\ data_calls < MaxEvents
    /\ data_name' = name
    /\ data_calls' = data_calls + 1
    /\ last_log' = [type |-> "DATA_UPDATE", level |-> "DEFAULT"]
    /\ bus_signal' = Signal(name)
    /\ bus_calls' = bus_calls + 1
    /\ UNCHANGED <<resolverVars, gateVars, schemaVars>>

LogLevel == {"DEBUG", "INFO", "WARNING", "ERROR", "CRITICAL"}

\* _on_log(message, level)
on_log(level) ==
    /\ ~LoopBusy
    /\ last_log' = [type |-> "API", level |-> level]
    /\ UNCHANGED <<resolverVars, gateVars, busVars, schemaVars>>

\* _on_ratelimit(message)
on_ratelimit ==
    /\ ~LoopBusy
    /\ last_log' = [type |-> "API", level |-> "WARNING"]
    /\ UNCHANGED <<resolverVars, gateVars, busVars, schemaVars>>

\* _on_mqtt_publish(message, topic, device, qos, retain)
on_mqtt_publish ==
    /\ ~LoopBusy
    /\ last_log' = [type |-> "API", level |-> "DEBUG"]
    /\ UNCHANGED <<resolverVars, gateVars, busVars, schemaVars>>

(***************************************************************************)
(* CONFIG_SCHEME of the LandXcape device.                                  *)
(***************************************************************************)
RAINDELAY_MIN == 0
RAINDELAY_MAX == 300
TIMEEXTENSION_MIN == -100
TIMEEXTENSION_MAX == 100

ATTR_RAINDELAY == "raindelay"
ATTR_TIMEEXTENSION == "timeextension"

\* vol.Coerce(int) applied to an int
Coerce(v) == v

\* vol.Range(min, max): both limits included
Range(v, min, max) == min <= v /\ v <= max

\* mutant: the upper limit of the rain delay is off by one
ValidRainDelay_OffByOne(v) == Range(Coerce(v), RAINDELAY_MIN, RAINDELAY_MAX - 1)

\* vol.All(vol.Coerce(int), vol.Range(0, 300))
ValidRainDelay(v) == Range(Coerce(v), RAINDELAY_MIN, RAINDELAY_MAX)

\* vol.All(vol.Coerce(int), vol.Range(-100, 100))
ValidTimeExtension(v) == Range(Coerce(v), TIMEEXTENSION_MIN, TIMEEXTENSION_MAX)

\* the schema applied to a configuration: every vol.Optional key that is
\* present must validate
CONFIG_SCHEME(cfg) ==
    /\ ATTR_RAINDELAY \in DOMAIN cfg => ValidRainDelay(cfg[ATTR_RAINDELAY])
    /\ ATTR_TIMEEXTENSION \in DOMAIN cfg => ValidTimeExtension(cfg[ATTR_TIMEEXTENSION])

\* integers offered to the schema
ConfigValues == (TIMEEXTENSION_MIN - ValueMargin)..(RAINDELAY_MAX + ValueMargin)

\* configurations holding any of the two integer fields
Configs == UNION {[K -> ConfigValues] : K \in SUBSET {ATTR_RAINDELAY, ATTR_TIMEEXTENSION}}

EmptyConfig == [k \in {} |-> 0]

\* a service call validates its data: CONFIG_SCHEME(cfg_data) returns or raises vol.Invalid
validate_config ==
    /\ cfg_result = "none"
    /\ cfg_result' = IF CONFIG_SCHEME(cfg_data) THEN "valid" ELSE "invalid"
    /\ UNCHANGED <<resolverVars, gateVars, busVars, last_log, cfg_data>>

(***************************************************************************)
(* Specifications.                                                         *)
(***************************************************************************)
\* LandroidAPI.__init__
InitAdapter ==
    /\ features = 0
    /\ features_loaded = FALSE
    /\ capabilities = [ready |-> FALSE, flags |-> {}]
    /\ arg_features = 0
    /\ cf_calls = 0
    /\ cb_supplied = FALSE
    /\ cb_received = NotCalled
    /\ cb_calls = 0
    /\ gate_pc = "idle"
    /\ gate_calls = 0
    /\ now = 0
    /\ timeout_at = 0
    /\ timed_out = FALSE
    /\ error = NoError
    /\ entry = [ready |-> FALSE, loaded |-> FALSE, bits |-> 0, binds |-> 0]
    /\ mqtt_eventloop = NoLoop
    /\ set_eventloop_calls = 0
    /\ data_name = <<>>
    /\ data_calls = 0
    /\ bus_signal = <<>>
    /\ bus_calls = 0
    /\ last_log = [type |-> "NONE", level |-> "NONE"]
    /\ cfg_result = "none"

Init == InitAdapter /\ cfg_data = EmptyConfig

\* the feature resolver and the capability report it reads
NextResolver ==
    \/ \E m \in InputMasks, cb \in BOOLEAN : check_features(m, cb)
    \/ \E S \in SUBSET DeviceCapability : capabilities_load(S)

SpecResolver == Init /\ [][NextResolver]_vars

\* the readiness gate with the clock and the tasks of the loop that make the
\* adapter ready; the resolver is called with an empty mask or the base mask
NextGate ==
    \/ \E t \in Timeouts : gate_enter(t)
    \/ while_exit
    \/ while_break
    \/ gate_raise
    \/ gate_bind
    \/ tick
    \/ set_features_loaded
    \/ \E S \in SUBSET DeviceCapability : capabilities_load(S)
    \/ \E m \in {0, DEVICE_FEATURES} : check_features(m, FALSE)

SpecGate == Init /\ [][NextGate]_vars

\* time passes, and a coroutine that is running executes its next statement
SpecGateFair ==
    /\ SpecGate
    /\ WF_vars(tick)
    /\ WF_vars(while_exit \/ while_break \/ gate_raise \/ gate_bind)

\* the callbacks the cloud client invokes
NextBus ==
    \/ \E name \in Names : receive_data(name)
    \/ \E level \in LogLevel : on_log(level)
    \/ on_ratelimit
    \/ on_mqtt_publish

SpecBus == Init /\ [][NextBus]_vars

\* the configuration schema applied to every configuration of Configs
InitSchema == InitAdapter /\ cfg_data \in Configs

NextSchema == validate_config

SpecSchema == InitSchema /\ [][NextSchema]_vars

(***************************************************************************)
(* Claims about check_features, under SpecResolver.                        *)
(***************************************************************************)
\* a step that is a check_features call
IsCheckFeatures == cf_calls' = cf_calls + 1

\* the feature bits of the capability flags the report holds
TrueFlagBits == {FlagBit(f) : f \in capabilities.flags}

\* C1, as stated: after every check_features call, for any input mask, the
\* stored mask has exactly the bits of the capability flags that are true
C1_OnlyTrueFlagBits ==
    [][IsCheckFeatures =>
        \A bit \in FeatureBits : HasBit(features', bit) <=> bit \in TrueFlagBits]_vars

\* C1, amended: after every check_features call the stored mask has exactly
\* the bits of the input mask together with the bits of the capability flags
\* that are true, and no others; for the input mask 0 these are exactly the
\* bits of the true flags
C1_InputAndTrueFlagBits ==
    [][IsCheckFeatures =>
        /\ features' \in 0..(2 * TORQUE - 1)
        /\ \A bit \in FeatureBits :
              HasBit(features', bit) <=>
                  (HasBit(arg_features', bit) \/ bit \in TrueFlagBits)
        /\ arg_features' = 0 => features' = FlagBits(capabilities.flags)]_vars

\* C1 witness: a call with the LandXcape base mask on a device that has party
\* mode and torque but neither OTS nor edge cut
C1_Witness ==
    /\ cf_calls >= 1
    /\ capabilities.ready
    /\ capabilities.flags = {"PARTY_MODE", "TORQUE"}
    /\ arg_features = DEVICE_FEATURES
    /\ features = DEVICE_FEATURES + PARTYMODE + TORQUE

\* C2: every check_features call given a callback invokes it exactly once, with
\* the mask stored just before the call (0 on a fresh adapter); a call given no
\* callback invokes nothing, and nothing else invokes a callback
C2_CallbackGetsPreviousMask ==
    /\ [][/\ IsCheckFeatures =>
               IF cb_supplied'
               THEN cb_calls' = cb_calls + 1 /\ cb_received' = features
               ELSE cb_calls' = cb_calls /\ cb_received' = NotCalled
          /\ ~IsCheckFeatures => cb_calls' = cb_calls]_vars
    /\ [](cf_calls = 1 /\ cb_supplied => cb_received = 0)

\* C2 witness: the second call's callback has received the first call's
\* result, which is neither the fresh adapter's 0 nor the new mask
C2_Witness ==
    /\ cf_calls = 2
    /\ cb_supplied
    /\ cb_calls = 1
    /\ cb_received = PARTYMODE
    /\ features = TORQUE

\* C8: check_features only adds bits to its input mask, the bits it adds are
\* among party mode, OTS, edge cut and torque, and the new stored mask is a
\* function of the input mask and the capability report alone
C8_OnlyAddsCapabilityBits ==
    /\ [](BitAnd(features, arg_features) = arg_features)
    /\ [](\E S \in SUBSET DeviceCapability : features = arg_features + FlagBits(S))
    /\ [][IsCheckFeatures =>
            features' = arg_features' + FlagBits({f \in capabilities.flags :
                                                   ~HasBit(arg_features', FlagBit(f))})]_vars

\* C8 witness: the mask stored before the call had the party-mode bit, the
\* call was given a mask without it on a device without party mode, and the
\* new mask is the input plus the torque bit
C8_Witness ==
    /\ cf_calls = 2
    /\ cb_supplied
    /\ HasBit(cb_received, PARTYMODE)
    /\ arg_features = DEVICE_FEATURES + EDGECUT
    /\ capabilities.flags = {"EDGE_CUT", "TORQUE"}
    /\ features = DEVICE_FEATURES + EDGECUT + TORQUE

(***************************************************************************)
(* Claims about async_await_features, under SpecGate and SpecGateFair.     *)
(***************************************************************************)
\* the coroutine is between its entry and its return or raise
GateRunning == gate_pc \in {"while", "check"}

\* the latest call found the adapter ready when it was entered
EnteredReady == gate_calls >= 1 /\ entry.ready /\ entry.loaded /\ entry.bits # 0

\* C3: while the gate waits for features_loaded, the task of the same event
\* loop that sets the flag is not kept from running
C3_WaitLetsOtherTaskRun ==
    (gate_pc = "while" /\ ~features_loaded) => ENABLED set_features_loaded

\* C4: a call entered with capabilities ready, features loaded and a non-zero
\* mask never waits in its loop, never breaks out by the deadline, never
\* raises, and has bound the MQTT transport to the host loop exactly once
\* when it has returned
C4_ReadyGateReturnsAtOnce ==
    EnteredReady =>
        /\ ~timed_out
        /\ gate_pc # "raised"
        /\ error = NoError
        /\ gate_pc = "while" => features_loaded
        /\ gate_pc = "check" => ~ReadinessFailed
        /\ GateRunning => set_eventloop_calls = entry.binds
        /\ gate_pc = "returned" =>
              mqtt_eventloop = HassLoop /\ set_eventloop_calls = entry.binds + 1

\* C4 witness: such a call has returned, before its deadline
C4_Witness ==
    /\ EnteredReady
    /\ gate_pc = "returned"
    /\ now <= timeout_at
    /\ mqtt_eventloop = HassLoop
    /\ set_eventloop_calls = 1

\* C5: a running call during which the capability report is not ready ends,
\* for every timeout, by raising; the error carries capabilities.ready,
\* features_loaded and the mask as they are when it is raised; a call that
\* returns found the report ready
C5_NeverReadyRaises ==
    /\ (GateRunning /\ ~capabilities.ready) ~> (gate_pc = "raised" /\ ~error.ready)
    /\ [][gate_pc # "raised" /\ gate_pc' = "raised" =>
            error' = [ready |-> capabilities'.ready, loaded |-> features_loaded',
                      bits |-> features']]_vars
    /\ [](gate_pc = "returned" => entry.ready)

\* C5 witness: a call with the report not ready, the flag not set and a
\* non-zero mask has left its loop by the deadline and has raised
C5_Witness ==
    /\ gate_pc = "raised"
    /\ timed_out
    /\ now > timeout_at
    /\ error = [ready |-> FALSE, loaded |-> FALSE, bits |-> DEVICE_FEATURES]

\* C9: the gate has returned only if check_features has completed at least
\* once, and the mask is non-zero only if it has
C9_ReturnAfterResolver ==
    /\ gate_pc = "returned" => cf_calls >= 1
    /\ features # 0 => cf_calls >= 1

\* C9 witness: the gate has returned after one check_features call
C9_Witness ==
    /\ gate_pc = "returned"
    /\ cf_calls = 1
    /\ features_loaded
    /\ features # 0

\* C10: no step of the gate changes the mask or the features_loaded flag, and
\* a call that has raised has not bound the MQTT transport
C10_GateWritesNothing ==
    /\ [][GateRunning \/ gate_pc' # gate_pc =>
            features' = features /\ features_loaded' = features_loaded]_vars
    /\ [](gate_pc = "raised" => set_eventloop_calls = entry.binds)
    /\ [](set_eventloop_calls = 0 => mqtt_eventloop = NoLoop)

\* C10 witness: a call has raised on an adapter whose flag is set and whose
\* mask is non-zero, the report not being ready
C10_Witness ==
    /\ gate_pc = "raised"
    /\ features_loaded
    /\ features # 0
    /\ error.loaded
    /\ mqtt_eventloop = NoLoop

(***************************************************************************)
(* Claims about the callbacks, under SpecBus.                              *)
(***************************************************************************)
\* a name with every letter in lower case
LowerName(name) == [i \in 1..Len(name) |-> Lower(name[i])]

\* the letters and digits of a text, in order and in lower case
LettersOf(text) == SelectSeq(LowerName(text), IsAlnum)

\* the signal and the slug of every device name of the account
SignalOf == [name \in Names |-> Signal(name)]

SlugOf == [name \in Names |-> util_slugify(name)]

\* the signal is the update prefix followed by what the name contributes, it
\* keeps the letters and digits of the name, and letter case does not matter
DerivedFrom(signal, name) ==
    /\ signal = SignalOf[name]
    /\ signal = SignalOf[LowerName(name)]
    /\ Len(signal) >= Len(UPDATE_SIGNAL)
    /\ SubSeq(signal, 1, Len(UPDATE_SIGNAL)) = UPDATE_SIGNAL
    /\ LettersOf(signal) = LettersOf(UPDATE_SIGNAL) \o LettersOf(name)

\* C6, as stated: every data-received notification for a name has caused
\* exactly one publish and no other callback has published; the publish was
\* on the signal derived from the prefix and the name, which is the signal of
\* no device whose name differs from it by more than letter case
C6_NeverAnotherDevicesSignal ==
    /\ bus_calls = data_calls
    /\ data_calls >= 1 =>
          /\ DerivedFrom(bus_signal, data_name)
          /\ \A other \in Names :
                LowerName(other) # LowerName(data_name) => bus_signal # SignalOf[other]

\* C6, amended: every data-received notification for a name has caused
\* exactly one publish and no other callback has published; the publish was
\* on the signal derived from the prefix and the name; that signal is also
\* the signal of every device whose name slugifies to the same text (names
\* differing in letter case, or in separators such as a space against an
\* underscore) and of no other device
C6_PublishesOnSlugSignal ==
    /\ bus_calls = data_calls
    /\ data_calls >= 1 =>
          /\ DerivedFrom(bus_signal, data_name)
          /\ \A other \in Names :
                bus_signal = SignalOf[other] <=> SlugOf[other] = SlugOf[data_name]

\* C6 witness: a notification for "A " was published on the signal that the
\* device named "a" has too, and a log callback has since run
C6_Witness ==
    /\ data_calls = 1
    /\ bus_calls = 1
    /\ data_name = <<"A", " ">>
    /\ bus_signal = UPDATE_SIGNAL \o <<"_", "a">>
    /\ bus_signal = Signal(<<"a">>)
    /\ last_log.type = "API"

(***************************************************************************)
(* Claims about CONFIG_SCHEME, under SpecSchema.                           *)
(***************************************************************************)
\* C7: a validated configuration is accepted exactly if its rain delay, when
\* given, is in 0..300 and its time extension, when given, is in -100..100;
\* leaving a field out never makes it rejected
C7_SchemaRanges ==
    cfg_result # "none" =>
        /\ cfg_result \in {"valid", "invalid"}
        /\ cfg_result = "valid" <=>
              /\ "raindelay" \in DOMAIN cfg_data =>
                    (0 <= cfg_data["raindelay"] /\ cfg_data["raindelay"] <= 300)
              /\ "timeextension" \in DOMAIN cfg_data =>
                    (0 - 100 <= cfg_data["timeextension"] /\ cfg_data["timeextension"] <= 100)
        /\ DOMAIN cfg_data = {} => cfg_result = "valid"

\* C7 witness: a rain delay of 300 with no time extension was accepted
C7_Witness ==
    /\ cfg_result = "valid"
    /\ DOMAIN cfg_data = {"raindelay"}
    /\ cfg_data["raindelay"] = 300

Next == NextResolver \/ NextGate \/ NextBus \/ NextSchema

Spec == Init /\ [][Next]_vars
====
